---- MODULE Spec2Model ----
(***************************************************************************)
(* A model of the minix shell's core (src/shell/src/mshell.c): the line    *)
(* validation, the pipeline executor, the process launcher and the job     *)
(* table it drives.  The job table (childmanager.c), the line reader, the  *)
(* parser and the builtin registry are not among the sources; they are     *)
(* modelled from their description in spec.md.                             *)
(***************************************************************************)
EXTENDS Integers, Sequences, FiniteSets, TLC

VARIABLES
  pc,         \* where the shell's main thread is
  is_a_tty,   \* main: isatty(STDIN_FILENO)
  parsed,     \* what parseline returned for the line being handled
  pipelines,  \* handleLine: the list left by removeEmptyPipelines
  count,      \* handleLine: what removeEmptyPipelines returned
  i,          \* handleLine: index of the next pipeline to run (0-based)
  k,          \* runPipeline: index of the stage being launched (0-based)
  read_fd,    \* runPipeline: read_fd
  pipe_fds,   \* runPipeline: pipe_fds of the stage being launched, or NoPipe
  pid,        \* runCommand: what fork() returned in the parent
  fds,        \* the shell's descriptor table: descriptor -> open file
  blocked,    \* whether SIGCHLD is blocked in the shell
  fgSet,      \* job table: pids registered as foreground children
  bgList,     \* job table: pids of terminated background children, pending
  procs,      \* the children the model tracks, by pid
  nforked,    \* how many children the shell has forked
  used,       \* the size of the lines read so far
  nrun,       \* how many times runPipeline has taken the general path
  npipes,     \* runPipeline: the pipes the current call has created
  ran,        \* the runPipeline calls of the line being handled, and their forks
  reported,   \* pids printed by the last printBackgroundChildrenInfo
  errs,       \* diagnostics the shell printed for the line being handled
  exitCause,  \* why the shell exited, or "none"
  launch      \* the launcher on its own: one child of runCommand, in full

vars == <<pc, is_a_tty, parsed, pipelines, count, i, k, read_fd, pipe_fds, pid,
          fds, blocked, fgSet, bgList, procs, nforked, used, nrun, npipes, ran,
          reported, errs, exitCause, launch>>

---------------------------------------------------------------------------
(* Bounds of the model. *)

\* The size of the lines the shell reads in one session is at most this: one
\* for each command slot (empty or not), one for each redirection, one for
\* each background mark; a pipeline without commands counts one.
MaxSize == 3

---------------------------------------------------------------------------
(* Program constants. *)

STDIN_FILENO == 0
STDOUT_FILENO == 1
STDERR_FILENO == 2
EXIT_SUCCESS == 0
EXIT_FAILURE == 1
\* config.h, which is not among the sources: the status reserved for launch
\* failures, distinct from EXIT_FAILURE; 127 is the shells' convention.
EXEC_FAILURE == 127

\* A null list (a line, a command list) is the empty sequence: a circular
\* list has at least one element.  A null command or pipeline pointer is a
\* record of its own.
NoPipe == <<>>
NullCommand == [name |-> "NULL", redirs |-> <<>>]
NullPipeline == [commands |-> <<>>, flags |-> "NULL"]
INBACKGROUND == "INBACKGROUND"
NOFLAGS == "NOFLAGS"

---------------------------------------------------------------------------
(* The parsed representation (siparse.h), lists as sequences. *)

Files == {"f", "g"}
Redirs == [dir : {"RIN", "ROUT", "RAPPEND"}, filename : Files]
\* The redirection lists the shell model draws from: none, or one of each kind.
RedirSeqs == {<<>>, <<[dir |-> "ROUT", filename |-> "f"]>>}
\* getBuiltin: the names the builtin registry maps to a handler.
Builtins == {"cd"}
Names == {"cd", "ls"}
getBuiltin(name) == IF name \in Builtins THEN name ELSE "NULL"

Commands == [name : Names, redirs : RedirSeqs]
Slots == {NullCommand} \cup Commands
SlotSize(c) == 1 + Len(c.redirs)

RECURSIVE SeqsOf(_, _)
SeqsOf(S, n) ==
  IF n = 0 THEN {<<>>}
  ELSE {Append(q, x) : q \in SeqsOf(S, n - 1), x \in S}

\* The command lists of size w, each of at least one slot.
RECURSIVE CommandSeqs(_)
CommandSeqs(w) ==
  {<<c>> : c \in {x \in Slots : SlotSize(x) = w}}
  \cup UNION {{<<c>> \o rest : rest \in CommandSeqs(w - SlotSize(c))}
              : c \in {x \in Slots : SlotSize(x) < w}}

PipelinesOfSize(w) ==
  {[commands |-> cs, flags |-> NOFLAGS] : cs \in CommandSeqs(w)}
  \cup (IF w > 1
        THEN {[commands |-> cs, flags |-> INBACKGROUND] : cs \in CommandSeqs(w - 1)}
        ELSE {NullPipeline, [commands |-> <<>>, flags |-> NOFLAGS]})

\* The lines of size at most w (the empty sequence among them).
RECURSIVE LinesUpTo(_)
LinesUpTo(w) ==
  IF w = 0 THEN {<<>>}
  ELSE {<<>>} \cup
       UNION {{<<p>> \o rest : p \in PipelinesOfSize(n), rest \in LinesUpTo(w - n)}
              : n \in 1..w}

\* What parseline can return for a line it accepts: at least one pipeline.
Lines == LinesUpTo(MaxSize) \ {<<>>}

RECURSIVE LineSize(_)
LineSize(line) ==
  IF line = <<>> THEN 0
  ELSE LET p == Head(line)
           RECURSIVE Sum(_)
           Sum(cs) == IF cs = <<>> THEN 0 ELSE SlotSize(Head(cs)) + Sum(Tail(cs))
       IN (IF p.commands = <<>> THEN 1 ELSE Sum(p.commands))
          + (IF p.flags = INBACKGROUND THEN 1 ELSE 0)
          + LineSize(Tail(line))

---------------------------------------------------------------------------
(* Line validation. *)

isEmptyPipeline(p) ==
  \/ p = NullPipeline
  \/ p.commands = <<>>
  \/ (p.commands[1] = NullCommand /\ Len(p.commands) = 1)

\* The circular list's next pointer, over positions 1..n.
NextPtr(n) == [j \in 1..n |-> (j % n) + 1]

\* "Find a first non-empty pipeline": at most n steps from curr.
RECURSIVE FindFirst(_, _, _, _)
FindFirst(pls, curr, j, n) ==
  IF j < n /\ isEmptyPipeline(pls[curr])
  THEN FindFirst(pls, NextPtr(n)[curr], j + 1, n)
  ELSE curr

\* A removal loop that steps over an empty pipeline without unlinking it.
RECURSIVE RemoveLoopKeepsEmpty(_, _, _, _, _, _)
RemoveLoopKeepsEmpty(pls, nxt, prev, curr, num, j) ==
  IF j < 1 THEN [next |-> nxt, num_pipelines |-> num]
  ELSE RemoveLoopKeepsEmpty(pls, nxt, nxt[prev], nxt[curr], num, j - 1)

\* "Remove all empty pipelines": j counts down from the original length.
RECURSIVE RemoveLoop(_, _, _, _, _, _)
RemoveLoop(pls, nxt, prev, curr, num, j) ==
  IF j < 1 THEN [next |-> nxt, num_pipelines |-> num]
  ELSE IF isEmptyPipeline(pls[curr])
       THEN RemoveLoop(pls, [nxt EXCEPT ![prev] = nxt[curr]], prev, nxt[curr],
                       num - 1, j - 1)
       ELSE RemoveLoop(pls, nxt, nxt[prev], nxt[curr], num, j - 1)

HasNullCommand(p) == \E c \in 1..Len(p.commands) : p.commands[c] = NullCommand

\* "Check validity": the loop runs num times and never advances curr.
RECURSIVE CheckLoop(_, _, _, _, _)
CheckLoop(pls, nxt, curr, j, num) ==
  IF j >= num THEN TRUE
  ELSE IF HasNullCommand(pls[curr]) THEN FALSE
       ELSE CheckLoop(pls, nxt, curr, j + 1, num)

\* The list handleLine walks: num elements from head along next.
RECURSIVE Walk(_, _, _, _)
Walk(pls, nxt, curr, num) ==
  IF num = 0 THEN <<>>
  ELSE <<pls[curr]>> \o Walk(pls, nxt, nxt[curr], num - 1)

\* removeEmptyPipelines: the value returned and the list left in *pipelines.
removeEmptyPipelines(pls) ==
  IF pls = <<>> THEN [ret |-> -1, list |-> <<>>]
  ELSE
    LET n == Len(pls)
        first == FindFirst(pls, 1, 0, n)
    IN IF isEmptyPipeline(pls[first]) THEN [ret |-> 0, list |-> <<>>]
       ELSE
         LET r == RemoveLoop(pls, NextPtr(n), first, NextPtr(n)[first], n, n)
         IN IF ~CheckLoop(pls, r.next, first, 0, r.num_pipelines)
            THEN [ret |-> -1, list |-> <<>>]
            ELSE [ret |-> r.num_pipelines,
                  list |-> Walk(pls, r.next, first, r.num_pipelines)]

---------------------------------------------------------------------------
(* Descriptor tables: a function from the open descriptors to what each    *)
(* refers to.  Open files are named: the shell's three standard streams,   *)
(* <<"r", n, k>> and <<"w", n, k>> for the two ends of the pipe after      *)
(* stage k of the n-th pipeline launched, <<"file", name, mode>> for an    *)
(* opened redirection target.                                              *)

InitFds == (STDIN_FILENO :> <<"stdin">>) @@ (STDOUT_FILENO :> <<"stdout">>)
           @@ (STDERR_FILENO :> <<"stderr">>)
NoFds == [x \in {} |-> <<"none">>]

IsOpen(t, fd) == fd \in DOMAIN t
\* The lowest descriptor not open in t.
LowestFree(t) ==
  CHOOSE fd \in 0..Cardinality(DOMAIN t) :
    /\ fd \notin DOMAIN t
    /\ \A g \in 0..Cardinality(DOMAIN t) : g \notin DOMAIN t => fd <= g
Without(t, fd) == [x \in (DOMAIN t) \ {fd} |-> t[x]]
With(t, fd, obj) == [x \in (DOMAIN t) \cup {fd} |-> IF x = fd THEN obj ELSE t[x]]

---------------------------------------------------------------------------
(* The child side of runCommand.  A child is a record: its descriptor      *)
(* table, whether it is still running the shell's code, the system calls   *)
(* it made (trace), the diagnostics it printed, and what became of it.     *)
(* fault is the ordinal of the one descriptor/open/exec call made to fail  *)
(* (0: none); a call on a descriptor that is not open fails by itself.     *)
(* status is the exit code, -1 while there is none (the child runs, or a   *)
(* signal killed it).                                                      *)

ChildAtFork(table, isBlocked) ==
  [fds |-> table, alive |-> TRUE, n |-> 0, trace |-> <<>>, diag |-> 0,
   session |-> "shell", blocked |-> isBlocked, sigint |-> "SIG_IGN",
   sigchld |-> "sigchldHandler", exec |-> FALSE, status |-> -1,
   fail |-> "none"]

Did(c, what) == [c EXCEPT !.trace = Append(@, what)]
Called(c, what) == [Did(c, what) EXCEPT !.n = @ + 1]
\* exit(status) after one diagnostic.
Exit(c, kind, status) ==
  [c EXCEPT !.alive = FALSE, !.diag = @ + 1, !.status = status,
            !.fail = kind, !.fds = NoFds]

closeFileDescriptor(c, fd, fault) ==
  IF ~c.alive THEN c
  ELSE LET d == Called(c, <<"close", fd>>)
       IN IF d.n = fault \/ ~IsOpen(c.fds, fd)
          THEN Exit(d, "close", EXIT_FAILURE)
          ELSE [d EXCEPT !.fds = Without(@, fd)]

moveFileDescriptor(c, from, to, fault) ==
  IF ~c.alive \/ from = to THEN c
  ELSE LET d == Called(c, <<"dup2", from, to>>)
       IN IF d.n = fault \/ ~IsOpen(c.fds, from)
          THEN Exit(d, "dup2", EXIT_FAILURE)
          ELSE closeFileDescriptor([d EXCEPT !.fds = With(@, to, c.fds[from])],
                                   from, fault)

\* An openFile that prints its diagnostic and returns -1 to its caller.
openFileReturns(c, filename, mode, fault) ==
  IF ~c.alive THEN [c |-> c, fd |-> -1]
  ELSE LET d == Called(c, <<"open", filename, mode>>)
       IN IF d.n = fault
          THEN [c |-> [d EXCEPT !.diag = @ + 1, !.fail = "open"], fd |-> -1]
          ELSE LET fd == LowestFree(d.fds)
               IN [c |-> [d EXCEPT !.fds = With(@, fd, <<"file", filename, mode>>)],
                   fd |-> fd]

\* openFile: the descriptor opened is the lowest free one; c carries it in fd.
openFile(c, filename, mode, fault) ==
  IF ~c.alive THEN [c |-> c, fd |-> -1]
  ELSE LET d == Called(c, <<"open", filename, mode>>)
       IN IF d.n = fault
          THEN [c |-> Exit(d, "open", EXIT_FAILURE), fd |-> -1]
          ELSE LET fd == LowestFree(d.fds)
               IN [c |-> [d EXCEPT !.fds = With(@, fd, <<"file", filename, mode>>)],
                   fd |-> fd]

addRedirs(c, r, fault) ==
  IF r.dir = "RIN"
  THEN LET o == openFile(c, r.filename, "O_RDONLY", fault)
       IN moveFileDescriptor(o.c, o.fd, STDIN_FILENO, fault)
  ELSE IF r.dir = "ROUT"
  THEN LET o == openFile(c, r.filename, "O_TRUNC", fault)
       IN moveFileDescriptor(o.c, o.fd, STDOUT_FILENO, fault)
  ELSE IF r.dir = "RAPPEND"
  THEN LET o == openFile(c, r.filename, "O_APPEND", fault)
       IN moveFileDescriptor(o.c, o.fd, STDOUT_FILENO, fault)
  ELSE c

\* A loop that applies the first redirection and stops.
RedirLoopFirstOnly(c, redirs, j, fault) ==
  IF j > Len(redirs) \/ j > 1 THEN c
  ELSE addRedirs(c, redirs[j], fault)

\* The do-while over com->redirs, from the j-th redirection on.
RECURSIVE RedirLoop(_, _, _, _)
RedirLoop(c, redirs, j, fault) ==
  IF j > Len(redirs) THEN c
  ELSE RedirLoop(addRedirs(c, redirs[j], fault), redirs, j + 1, fault)

\* A child that resets the dispositions and keeps the shell's signal mask.
ChildSignalsKeepsMask(c, is_background) ==
  LET a == IF is_background THEN [Did(c, <<"setsid">>) EXCEPT !.session = "new"]
           ELSE c
      d == [Did(a, <<"sigaction", "SIGINT", "default">>) EXCEPT !.sigint = "default"]
  IN [Did(d, <<"sigaction", "SIGCHLD", "default">>) EXCEPT !.sigchld = "default"]

\* Lines 107-113: session and signal state, before any descriptor is touched.
ChildSignals(c, is_background) ==
  LET a == IF is_background THEN [Did(c, <<"setsid">>) EXCEPT !.session = "new"]
           ELSE c
      b == [Did(a, <<"unblockChildSignal">>) EXCEPT !.blocked = FALSE]
      d == [Did(b, <<"sigaction", "SIGINT", "default">>) EXCEPT !.sigint = "default"]
  IN [Did(d, <<"sigaction", "SIGCHLD", "default">>) EXCEPT !.sigchld = "default"]

\* A wiring that takes the pipe's ends the wrong way round.
ChildWireSwapped(c, rfd, pfds, fault) ==
  LET a == moveFileDescriptor(c, rfd, STDIN_FILENO, fault)
  IN IF pfds # NoPipe
     THEN closeFileDescriptor(moveFileDescriptor(a, pfds[1], STDOUT_FILENO, fault),
                              pfds[2], fault)
     ELSE a

\* Lines 115-119: the stage's input on standard input, the pipe's write end
\* on standard output, the pipe's read end closed.
ChildWire(c, rfd, pfds, fault) ==
  LET a == moveFileDescriptor(c, rfd, STDIN_FILENO, fault)
  IN IF pfds # NoPipe
     THEN closeFileDescriptor(moveFileDescriptor(a, pfds[2], STDOUT_FILENO, fault),
                              pfds[1], fault)
     ELSE a

\* An exec failure that prints its diagnostic and falls out of runCommand.
ChildExecReturns(c, fault) ==
  IF ~c.alive THEN c
  ELSE LET d == Called(c, <<"execvp">>)
       IN IF d.n = fault THEN [d EXCEPT !.diag = @ + 1, !.fail = "exec"]
          ELSE [d EXCEPT !.alive = FALSE, !.exec = TRUE]

\* Lines 129-144: execvp, and the exit that follows when it returns.
ChildExec(c, fault) ==
  IF ~c.alive THEN c
  ELSE LET d == Called(c, <<"execvp">>)
       IN IF d.n = fault THEN Exit(d, "exec", EXEC_FAILURE)
          ELSE [d EXCEPT !.alive = FALSE, !.exec = TRUE]

\* com == NULL: com->redirs reads through a null pointer.  The child is
\* killed, or goes on with whatever it read: ub chooses among the outcomes.
ChildNullCommand(c, ub) ==
  IF ~c.alive THEN c
  ELSE IF ub = "killed"
       THEN [Did(c, <<"SIGSEGV">>) EXCEPT !.alive = FALSE, !.fail = "killed",
                                          !.fds = NoFds]
       ELSE IF ub = "exec" THEN ChildExec(c, 0)
       ELSE Exit(Called(c, <<"execvp">>), "ub", EXEC_FAILURE)

UbOutcomes == {"killed", "exec", "exit"}

\* runCommand in the child (pid == 0), from line 107 to the end.
ChildBody(com, table, rfd, pfds, is_background, fault, ub) ==
  LET c0 == ChildAtFork(table, TRUE)
      c1 == ChildSignals(c0, is_background)
      c2 == ChildWire(c1, rfd, pfds, fault)
  IN IF com = NullCommand THEN ChildNullCommand(c2, ub)
     ELSE ChildExec(RedirLoop(c2, com.redirs, 1, fault), fault)

\* The most descriptor/open/exec calls a child of com can make.
MaxCalls(com, pfds) ==
  2 + (IF pfds # NoPipe THEN 3 ELSE 0)
    + (IF com = NullCommand THEN 0 ELSE 3 * Len(com.redirs)) + 1

---------------------------------------------------------------------------
(* The job table (childmanager.c).                                         *)

registerForegroundChild(set, p) == set \cup {p}
blockChildSignal == TRUE
unblockChildSignal == FALSE

\* One reap: a pid of the foreground-wait set leaves it, any other pid is
\* appended to the pending background list.
Reap(jobs, p) ==
  IF p \in jobs.fg THEN [jobs EXCEPT !.fg = @ \ {p}]
  ELSE [jobs EXCEPT !.bg = Append(@, p)]

RECURSIVE ReapAll(_, _)
ReapAll(jobs, order) ==
  IF order = <<>> THEN jobs ELSE ReapAll(Reap(jobs, Head(order)), Tail(order))

\* The orders in which waitpid(-1) can hand out the pids of S.
Orders(S) == {o \in SeqsOf(S, Cardinality(S)) : \A x \in S : \E j \in DOMAIN o : o[j] = x}

---------------------------------------------------------------------------
(* The shell.                                                              *)

Pids == DOMAIN procs
Zombies == {p \in Pids : procs[p].st = "zombie"}
NoProcs == [p \in {} |-> 0]
NoLaunch == [st |-> "none"]

\* runPipeline's locals, from the pipeline being run.
CurPipeline == pipelines[i + 1]
num_commands == Len(CurPipeline.commands)
is_background == CurPipeline.flags = INBACKGROUND
CurCommand == CurPipeline.commands[k + 1]

\* The shell's own process, for the descriptor helpers it shares with its
\* children.
Shell == ChildAtFork(fds, blocked)

Init ==
  /\ pc = "prompt"
  /\ is_a_tty \in BOOLEAN
  /\ exitCause = "none"
  /\ parsed = <<>>
  /\ pipelines = <<>>
  /\ count = 0
  /\ i = 0
  /\ k = 0
  /\ read_fd = -1
  /\ pipe_fds = NoPipe
  /\ pid = 0
  /\ fds = InitFds
  /\ blocked = FALSE
  /\ fgSet = {}
  /\ bgList = <<>>
  /\ procs = NoProcs
  /\ nforked = 0
  /\ used = 0
  /\ nrun = 0
  /\ npipes = 0
  /\ ran = <<>>
  /\ reported = <<>>
  /\ errs = <<>>
  /\ launch = NoLaunch

\* exit(status) in the shell: the process is gone, and its state with it.
ShellExit(cause) ==
  /\ pc' = "exited"
  /\ exitCause' = cause
  /\ UNCHANGED <<is_a_tty, launch>>
  /\ parsed' = <<>>
  /\ pipelines' = <<>>
  /\ count' = 0
  /\ i' = 0
  /\ k' = 0
  /\ read_fd' = -1
  /\ pipe_fds' = NoPipe
  /\ pid' = 0
  /\ fds' = NoFds
  /\ blocked' = FALSE
  /\ fgSet' = {}
  /\ bgList' = <<>>
  /\ procs' = NoProcs
  /\ nforked' = 0
  /\ used' = 0
  /\ nrun' = 0
  /\ npipes' = 0
  /\ ran' = <<>>
  /\ reported' = <<>>
  /\ errs' = <<>>

InSeq(x, q) == \E j \in DOMAIN q : q[j] = x

\* The children the model still tracks at a new prompt: the live ones and
\* the reaped ones whose completion is pending or reported just now.
Tracked(ps, pending) ==
  [p \in {q \in DOMAIN ps : ps[q].st # "reaped" \/ InSeq(q, pending)} |-> ps[p]]

\* main, lines 312-316: the top of the read-execute loop.  The record of the
\* previous line ends here.
MainPrompt ==
  /\ pc = "prompt"
  /\ pc' = "read"
  /\ IF is_a_tty
     THEN /\ reported' = bgList
          /\ bgList' = <<>>
     ELSE UNCHANGED <<reported, bgList>>
  /\ procs' = Tracked(procs, bgList)
  /\ parsed' = <<>>
  /\ pipelines' = <<>>
  /\ count' = 0
  /\ i' = 0
  /\ ran' = <<>>
  /\ errs' = <<>>
  /\ UNCHANGED <<is_a_tty, k, read_fd, pipe_fds, pid, fds, blocked, fgSet,
                 nforked, used, nrun, npipes, exitCause, launch>>

LineFrame == <<is_a_tty, k, read_fd, pipe_fds, pid, fds, blocked, fgSet,
               bgList, procs, nforked, nrun, npipes, reported>>

\* A shell that gives up on a malformed line.
HandleLineEIOFatal ==
  /\ pc = "read"
  /\ ShellExit("EIO")

\* handleLine, lines 272-277: the reader signals a malformed line.
HandleLineEIO ==
  /\ pc = "read"
  /\ pc' = "prompt"
  /\ errs' = <<"EIO">>
  /\ UNCHANGED <<parsed, pipelines, count, i, ran, used, exitCause, launch>>
  /\ UNCHANGED LineFrame

\* handleLine, lines 278-280: end of input.
HandleLineEOF ==
  /\ pc = "read"
  /\ ShellExit("EOF")

\* handleLine, line 284: the line is rejected.
Rejected(r) == r.ret = -1

\* handleLine, lines 282-289: parse, validate, and start the loop or reject.
HandleLineParsed ==
  /\ pc = "read"
  /\ \E line \in Lines \cup {<<>>} :
       LET r == removeEmptyPipelines(line)
       IN /\ LineSize(line) <= MaxSize - used
          /\ used' = used + LineSize(line)
          /\ parsed' = line
          /\ count' = r.ret
          /\ pipelines' = r.list
          /\ IF Rejected(r)
             THEN /\ errs' = <<"syntax">>
                  /\ pc' = "prompt"
             ELSE /\ errs' = <<>>
                  /\ pc' = "loop"
  /\ UNCHANGED <<i, ran, exitCause, launch>>
  /\ UNCHANGED LineFrame

\* handleLine, lines 290-294: the loop is over.
HandleLineReturn ==
  /\ pc = "loop"
  /\ ~(i < count)
  /\ pc' = "prompt"
  /\ UNCHANGED <<is_a_tty, parsed, pipelines, count, i, k, read_fd, pipe_fds,
                 pid, fds, blocked, fgSet, bgList, procs, nforked, used, nrun,
                 npipes, ran, reported, errs, exitCause, launch>>

\* A fast path that does not look at the redirections.
FastPathIgnoringRedirs(pl) ==
  /\ Len(pl.commands) = 1
  /\ ~(pl.flags = INBACKGROUND)
  /\ getBuiltin(pl.commands[1].name) # "NULL"

\* runPipeline, lines 232-235: the condition of the builtin fast path.
FastPath(pl) ==
  /\ Len(pl.commands) = 1
  /\ pl.commands[1].redirs = <<>>
  /\ ~(pl.flags = INBACKGROUND)
  /\ getBuiltin(pl.commands[1].name) # "NULL"

\* runPipeline, lines 236-240: the builtin runs in the shell.
RunPipelineBuiltin ==
  /\ pc = "loop"
  /\ i < count
  /\ FastPath(CurPipeline)
  /\ \E result \in {"ok", "BUILTIN_ERROR"} :
       errs' = IF result = "BUILTIN_ERROR" THEN Append(errs, "builtin") ELSE errs
  /\ ran' = Append(ran, [pl |-> CurPipeline, path |-> "builtin", forks |-> 0])
  /\ i' = i + 1
  /\ UNCHANGED <<pc, is_a_tty, parsed, pipelines, count, k, read_fd, pipe_fds,
                 pid, fds, blocked, fgSet, bgList, procs, nforked, used, nrun,
                 npipes, reported, exitCause, launch>>

\* A launch loop that leaves SIGCHLD deliverable.
MaskNotBlocked == unblockChildSignal

\* runPipeline, line 249: the signal mask the launch loop runs under.
MaskForLaunch == blockChildSignal

\* runPipeline, lines 243-249: dup the standard input, block SIGCHLD.
RunPipelineGeneral ==
  /\ pc = "loop"
  /\ i < count
  /\ ~FastPath(CurPipeline)
  /\ \E ok \in BOOLEAN :
       IF ok /\ IsOpen(fds, STDIN_FILENO)
       THEN /\ read_fd' = LowestFree(fds)
            /\ fds' = With(fds, LowestFree(fds), fds[STDIN_FILENO])
            /\ blocked' = MaskForLaunch
            /\ k' = 0
            /\ pc' = "launch"
            /\ ran' = Append(ran, [pl |-> CurPipeline, path |-> "general",
                                   forks |-> 0])
            /\ nrun' = nrun + 1
            /\ npipes' = 0
            /\ UNCHANGED <<is_a_tty, parsed, pipelines, count, i, pipe_fds, pid,
                           fgSet, bgList, procs, nforked, used, reported, errs,
                           exitCause, launch>>
       ELSE ShellExit("dup")

\* What the child of a fork starts from: a copy of the shell's descriptors
\* and signal mask, and runCommand's arguments.
Forked(table, rfd, pfds) ==
  [st |-> "forked", bg |-> is_background, run |-> nrun, stage |-> k,
   of |-> num_commands, com |-> CurCommand, rd |-> rfd, pp |-> pfds,
   fds |-> table, exec |-> FALSE]

\* runPipeline, lines 251-256 and 262: pipe(pipe_fds) for a stage that is
\* not the last, NULL for the last: the table and pipe_fds the fork sees.
StagePipe(table, run, stage, last) ==
  LET r == LowestFree(table)
      withR == With(table, r, <<"r", run, stage>>)
      w == LowestFree(withR)
  IN IF last THEN [table |-> table, pfds |-> NoPipe]
     ELSE [table |-> With(withR, w, <<"w", run, stage>>), pfds |-> <<r, w>>]

\* runPipeline, lines 250-256 and 262, with runCommand up to the fork
\* (lines 92-98): the pipe of a stage that is not the last, then the fork.
LaunchStage ==
  /\ pc = "launch"
  /\ \E pipeOk \in BOOLEAN, forkOk \in BOOLEAN :
       LET last == ~(k < num_commands - 1)
           sp == StagePipe(fds, nrun, k, last)
           table == sp.table
           pfds == sp.pfds
       IN IF ~last /\ ~pipeOk THEN ShellExit("pipe")
          ELSE IF ~forkOk THEN ShellExit("fork")
          ELSE /\ fds' = table
               /\ pipe_fds' = pfds
               /\ npipes' = IF last THEN npipes ELSE npipes + 1
               /\ procs' = ((nforked + 1) :> Forked(table, read_fd, pfds))
                           @@ procs
               /\ nforked' = nforked + 1
               /\ pid' = nforked + 1
               /\ pc' = "forked"
               /\ ran' = [ran EXCEPT ![Len(ran)].forks = @ + 1]
               /\ UNCHANGED <<is_a_tty, parsed, pipelines, count, i, k, read_fd,
                              blocked, fgSet, bgList, used, nrun, reported, errs,
                              exitCause, launch>>

\* A launcher that registers no child.
RegistersNone(isBackground) == FALSE

\* A launcher that registers every child, background ones too.
RegistersAll(isBackground) == TRUE

\* runCommand, line 101: which children are registered.
Registers(isBackground) == ~isBackground

\* runCommand, lines 100-105: the parent's side of the fork.
RunCommandParent ==
  /\ pc = "forked"
  /\ fgSet' = IF Registers(is_background)
              THEN registerForegroundChild(fgSet, pid) ELSE fgSet
  /\ pc' = "close"
  /\ UNCHANGED <<is_a_tty, parsed, pipelines, count, i, k, read_fd, pipe_fds,
                 pid, fds, blocked, bgList, procs, nforked, used, nrun, npipes,
                 ran, reported, errs, exitCause, launch>>

\* A runPipeline that never waits.
AfterLaunchNoWait(isBackground) == "unblock"

\* A runPipeline that waits after every pipeline, background ones too.
AfterLaunchAlwaysWaits(isBackground) == "wait"

\* runPipeline, lines 265-268: where the shell goes once the last stage is
\* launched.
AfterLaunch(isBackground) == IF ~isBackground THEN "wait" ELSE "unblock"

\* A parent that forgets the close after the last stage.
ParentCloseSkipsLast ==
  /\ pc = "close"
  /\ \E fault \in 0..2 :
       LET last == ~(k < num_commands - 1)
           a == IF last THEN Shell ELSE closeFileDescriptor(Shell, read_fd, fault)
           b == IF last THEN a ELSE closeFileDescriptor(a, pipe_fds[2], fault)
       IN IF b.fail # "none" THEN ShellExit("close")
          ELSE /\ fds' = b.fds
               /\ IF last
                  THEN /\ pc' = AfterLaunch(is_background)
                       /\ UNCHANGED <<read_fd, k>>
                  ELSE /\ read_fd' = pipe_fds[1]
                       /\ k' = k + 1
                       /\ pc' = "launch"
               /\ UNCHANGED <<is_a_tty, parsed, pipelines, count, i, pipe_fds,
                              pid, blocked, fgSet, bgList, procs, nforked, used,
                              nrun, npipes, ran, reported, errs, exitCause, launch>>

\* A parent that forgets to close the pipe's write end.
ParentCloseLeavesWriteEnd ==
  /\ pc = "close"
  /\ \E fault \in 0..2 :
       LET last == ~(k < num_commands - 1)
           a == closeFileDescriptor(Shell, read_fd, fault)
       IN IF a.fail # "none" THEN ShellExit("close")
          ELSE /\ fds' = a.fds
               /\ IF last
                  THEN /\ pc' = AfterLaunch(is_background)
                       /\ UNCHANGED <<read_fd, k>>
                  ELSE /\ read_fd' = pipe_fds[1]
                       /\ k' = k + 1
                       /\ pc' = "launch"
               /\ UNCHANGED <<is_a_tty, parsed, pipelines, count, i, pipe_fds,
                              pid, blocked, fgSet, bgList, procs, nforked, used,
                              nrun, npipes, ran, reported, errs, exitCause, launch>>

\* runPipeline, lines 257-260 and 263: the parent closes what it handed over.
ParentClose ==
  /\ pc = "close"
  /\ \E fault \in 0..2 :
       LET last == ~(k < num_commands - 1)
           a == closeFileDescriptor(Shell, read_fd, fault)
           b == IF last THEN a ELSE closeFileDescriptor(a, pipe_fds[2], fault)
       IN IF b.fail # "none" THEN ShellExit("close")
          ELSE /\ fds' = b.fds
               /\ IF last
                  THEN /\ pc' = AfterLaunch(is_background)
                       /\ UNCHANGED <<read_fd, k>>
                  ELSE /\ read_fd' = pipe_fds[1]
                       /\ k' = k + 1
                       /\ pc' = "launch"
               /\ UNCHANGED <<is_a_tty, parsed, pipelines, count, i, pipe_fds,
                              pid, blocked, fgSet, bgList, procs, nforked, used,
                              nrun, npipes, ran, reported, errs, exitCause, launch>>

\* A reaped child.
Reaped(ps, S) ==
  [p \in DOMAIN ps |-> IF p \in S THEN [ps[p] EXCEPT !.st = "reaped"] ELSE ps[p]]

\* waitForForegroundChildren: one blocking reap while the set is not empty.
WaitReap ==
  /\ pc = "wait"
  /\ fgSet # {}
  /\ \E z \in Zombies :
       LET j == Reap([fg |-> fgSet, bg |-> bgList], z)
       IN /\ fgSet' = j.fg
          /\ bgList' = j.bg
          /\ procs' = Reaped(procs, {z})
  /\ UNCHANGED <<pc, is_a_tty, parsed, pipelines, count, i, k, read_fd,
                 pipe_fds, pid, fds, blocked, nforked, used, nrun, npipes, ran,
                 reported, errs, exitCause, launch>>

\* waitForForegroundChildren returns: the set is empty.
WaitDone ==
  /\ pc = "wait"
  /\ fgSet = {}
  /\ pc' = "unblock"
  /\ UNCHANGED <<is_a_tty, parsed, pipelines, count, i, k, read_fd, pipe_fds,
                 pid, fds, blocked, fgSet, bgList, procs, nforked, used, nrun,
                 npipes, ran, reported, errs, exitCause, launch>>

\* A runPipeline that returns without unblocking.
RunPipelineReturnStillBlocked ==
  /\ pc = "unblock"
  /\ i' = i + 1
  /\ pc' = "loop"
  /\ k' = 0
  /\ read_fd' = -1
  /\ pipe_fds' = NoPipe
  /\ pid' = 0
  /\ UNCHANGED <<is_a_tty, parsed, pipelines, count, fds, blocked, fgSet, bgList,
                 procs, nforked, used, nrun, npipes, ran, reported, errs,
                 exitCause, launch>>

\* runPipeline, lines 268-269, and handleLine's p = p->next.
RunPipelineReturn ==
  /\ pc = "unblock"
  /\ blocked' = unblockChildSignal
  /\ i' = i + 1
  /\ pc' = "loop"
  /\ k' = 0
  /\ read_fd' = -1
  /\ pipe_fds' = NoPipe
  /\ pid' = 0
  /\ UNCHANGED <<is_a_tty, parsed, pipelines, count, fds, fgSet, bgList, procs,
                 nforked, used, nrun, npipes, ran, reported, errs, exitCause, launch>>

\* sigchldHandler: runs when SIGCHLD is deliverable and a child has
\* terminated; reaps every terminated child without blocking.
SigchldHandler ==
  /\ pc # "exited"
  /\ ~blocked
  /\ Zombies # {}
  /\ \E order \in Orders(Zombies) :
       LET j == ReapAll([fg |-> fgSet, bg |-> bgList], order)
       IN /\ fgSet' = j.fg
          /\ bgList' = j.bg
  /\ procs' = Reaped(procs, Zombies)
  /\ UNCHANGED <<pc, is_a_tty, parsed, pipelines, count, i, k, read_fd,
                 pipe_fds, pid, fds, blocked, nforked, used, nrun, npipes, ran,
                 reported, errs, exitCause, launch>>

ChildFrame == <<pc, is_a_tty, parsed, pipelines, count, i, k, read_fd,
                pipe_fds, pid, fds, blocked, fgSet, bgList, nforked, used,
                nrun, npipes, ran, reported, errs, exitCause, launch>>

\* What the shell's model keeps of a child that ran ChildBody: whether it
\* reached its program, and with which descriptors.
Started(p, c) ==
  [p EXCEPT !.st = IF c.exec THEN "running" ELSE "zombie",
            !.fds = c.fds, !.exec = c.exec]

\* The ways the child of com can go: which call fails, and what a null
\* command pointer leads to.
Faults(com, pfds) ==
  IF com = NullCommand
  THEN {[fault |-> f, ub |-> u] : f \in 0..(MaxCalls(com, pfds) - 1), u \in UbOutcomes}
  ELSE {[fault |-> f, ub |-> "none"] : f \in 0..MaxCalls(com, pfds)}

\* A forked child runs runCommand's child side, to its exec or its exit.
ChildStart ==
  /\ \E p \in Pids :
       /\ procs[p].st = "forked"
       /\ \E x \in Faults(procs[p].com, procs[p].pp) :
            procs' = [procs EXCEPT ![p] =
               Started(@, ChildBody(procs[p].com, procs[p].fds, procs[p].rd,
                                    procs[p].pp, procs[p].bg, x.fault, x.ub))]
  /\ UNCHANGED ChildFrame

\* The program a child exec'd terminates.
ChildExit ==
  /\ \E p \in Pids :
       /\ procs[p].st = "running"
       /\ procs' = [procs EXCEPT ![p].st = "zombie", ![p].fds = NoFds]
  /\ UNCHANGED ChildFrame

Next ==
  \/ MainPrompt
  \/ HandleLineEIO
  \/ HandleLineEOF
  \/ HandleLineParsed
  \/ HandleLineReturn
  \/ RunPipelineBuiltin
  \/ RunPipelineGeneral
  \/ LaunchStage
  \/ RunCommandParent
  \/ ParentClose
  \/ WaitReap
  \/ WaitDone
  \/ RunPipelineReturn
  \/ SigchldHandler
  \/ ChildStart
  \/ ChildExit

Spec == Init /\ [][Next]_vars

\* The shell with its scheduling: a waitpid that has a terminated child to
\* collect returns, and the shell's thread goes on when nothing blocks it.
\* The children are under no fairness: what they do in the end is an
\* assumption of the properties that need one.
SpecLive ==
  /\ Init
  /\ [][Next]_vars
  /\ WF_vars(WaitReap)
  /\ WF_vars(WaitDone)
  /\ WF_vars(RunPipelineReturn)

---------------------------------------------------------------------------
(* The launcher on its own: one child of runCommand, for every command,    *)
(* every position in a pipeline and every call that can fail, kept in      *)
(* full (its calls in order, its diagnostics, its exit status).            *)

\* The most redirections of a launched command, and the most stages of its
\* pipeline.
MaxRedirs == 2
MaxStages == 3

LaunchRedirSeqs == UNION {SeqsOf(Redirs, n) : n \in 0..MaxRedirs}
LaunchCommands == {NullCommand} \cup [name : {"ls"}, redirs : LaunchRedirSeqs]

\* runPipeline, lines 243-263, when nothing fails in the shell: what stage
\* `stage` of a pipeline of n commands is forked with, the loop being at
\* stage j with the table and read_fd given.
RECURSIVE StageArgs(_, _, _, _, _)
StageArgs(table, rfd, j, stage, n) ==
  LET last == ~(j < n - 1)
      sp == StagePipe(table, 1, j, last)
  IN IF j = stage THEN [table |-> sp.table, rd |-> rfd, pp |-> sp.pfds,
                        stage |-> stage, of |-> n]
     ELSE StageArgs(Without(Without(sp.table, rfd), sp.pfds[2]), sp.pfds[1],
                    j + 1, stage, n)

ForkArgs ==
  UNION {{StageArgs(With(InitFds, LowestFree(InitFds), InitFds[STDIN_FILENO]),
                    LowestFree(InitFds), 0, stage, n) : stage \in 0..(n - 1)}
         : n \in 1..MaxStages}

ShellVars == <<pc, is_a_tty, parsed, pipelines, count, i, k, read_fd, pipe_fds,
               pid, fds, blocked, fgSet, bgList, procs, nforked, used, nrun,
               npipes, ran, reported, errs, exitCause>>

\* runCommand, lines 92-98: the fork, seen from the child.
LaunchFork ==
  /\ launch.st = "none"
  /\ \E com \in LaunchCommands, bg \in BOOLEAN, a \in ForkArgs :
       launch' = [st |-> "forked", com |-> com, bg |-> bg, args |-> a,
                  fault |-> 0, ub |-> "none",
                  c |-> ChildAtFork(a.table, blockChildSignal)]
  /\ UNCHANGED ShellVars

\* runCommand, lines 107-144: the child, to its exec or its exit.
LaunchChild ==
  /\ launch.st = "forked"
  /\ \E x \in Faults(launch.com, launch.args.pp) :
       launch' = [launch EXCEPT
                    !.st = "done", !.fault = x.fault, !.ub = x.ub,
                    !.c = ChildBody(launch.com, launch.args.table,
                                    launch.args.rd, launch.args.pp, launch.bg,
                                    x.fault, x.ub)]
  /\ UNCHANGED ShellVars

NextLaunch ==
  \/ LaunchFork
  \/ LaunchChild

SpecLaunch == Init /\ [][NextLaunch]_vars

---------------------------------------------------------------------------
(* The properties checked.                                                 *)

Range(q) == {q[j] : j \in DOMAIN q}
Count(x, q) == Cardinality({j \in DOMAIN q : q[j] = x})

\* A pipeline with an empty command slot beside a real command.
MixesEmptyAndReal(p) ==
  /\ \E c \in DOMAIN p.commands : p.commands[c] = NullCommand
  /\ \E c \in DOMAIN p.commands : p.commands[c] # NullCommand

\* A pipeline that is empty, or made of real commands only.
EmptyOrReal(p) ==
  isEmptyPipeline(p) \/ \A c \in DOMAIN p.commands : p.commands[c] # NullCommand

NonEmptyOf(line) == SelectSeq(line, LAMBDA p : ~isEmptyPipeline(p))

\* The phases of one general-path call of runPipeline.
RunPhases == {"launch", "forked", "close", "wait", "unblock"}

\* C1: a line holding a pipeline that mixes an empty command slot with a
\* real command is rejected as a whole: the syntax diagnostic is printed,
\* no pipeline of the line runs, and the shell is back at its prompt.
C1_MixedLineRejected ==
  (parsed # <<>> /\ \E j \in DOMAIN parsed : MixesEmptyAndReal(parsed[j]))
    => /\ count = -1
       /\ errs = <<"syntax">>
       /\ ran = <<>>
       /\ pc = "prompt"

\* C2: while runPipeline launches a pipeline on the general path, and while
\* it waits for a foreground one, SIGCHLD is blocked and the handler cannot
\* run; in particular a child forked but not yet registered is not reaped.
C2_SigchldBlockedWhileLaunching ==
  /\ pc \in RunPhases => blocked /\ ~ENABLED SigchldHandler
  /\ pc = "forked" => procs[pid].st # "reaped"

\* C2's case: a stage of a foreground pipeline has just been forked and is
\* not registered yet, while an earlier child has already terminated.
C2_Witness ==
  /\ pc = "forked"
  /\ ~is_background
  /\ pid \notin fgSet
  /\ Zombies # {}

\* C3: the pipelines of a line run in order, and a foreground pipeline's
\* call of runPipeline returns only once every child forked for it is
\* reaped: a foreground child that is not reaped belongs to the call in
\* progress, and the foreground set is empty outside such a call.
C3_ForegroundSequential ==
  /\ \A p \in Pids :
       (~procs[p].bg /\ procs[p].st # "reaped")
         => procs[p].run = nrun /\ pc \in RunPhases \ {"unblock"}
  /\ fgSet # {} => pc \in RunPhases \ {"unblock"}
  /\ \A j \in DOMAIN ran : j <= Len(pipelines) /\ ran[j].pl = pipelines[j]
  /\ Len(ran) = IF pc \in RunPhases THEN i + 1 ELSE i

\* C3's case: the second pipeline of a line has forked a child after a
\* foreground pipeline that forked children ran before it.
C3_Witness ==
  /\ Len(ran) = 2
  /\ ran[1].path = "general"
  /\ ran[1].pl.flags # INBACKGROUND
  /\ ran[1].forks > 0
  /\ \E p \in Pids : procs[p].run = nrun /\ procs[p].st = "forked"
  /\ \E p \in Pids : procs[p].run # nrun /\ procs[p].st = "reaped"

\* C4: on a terminal, a background child is on the pending list or in a
\* printed report exactly once when it has been reaped and not at all
\* before, a foreground child is never reported, and a report is printed
\* only by the step at the top of the loop, before the prompt.
C4_BackgroundReportedOnce ==
  /\ [](is_a_tty =>
         /\ Range(bgList) \cup Range(reported) \subseteq Pids
         /\ \A p \in Pids :
              IF procs[p].bg
              THEN Count(p, bgList) + Count(p, reported)
                     = IF procs[p].st = "reaped" THEN 1 ELSE 0
              ELSE Count(p, bgList) + Count(p, reported) = 0)
  /\ [][(reported' # reported /\ pc' # "exited")
          => (is_a_tty /\ pc = "prompt" /\ reported' = bgList)]_vars

\* C4's case: on a terminal, the report printed before the prompt names a
\* background child, and the shell has forked again since.
C4_Witness ==
  /\ is_a_tty
  /\ reported # <<>>
  /\ \E p \in Pids : ~InSeq(p, reported) /\ procs[p].st = "reaped"

\* C5: a reaped child is classified once: a registered foreground child
\* leaves the foreground set and never reaches the background list, a
\* background child is never in the foreground set and is appended to the
\* list at most once, and only reaped children are on the list.
C5_OneClassification ==
  /\ fgSet \subseteq Pids
  /\ Range(bgList) \subseteq Pids
  /\ fgSet \cap Range(bgList) = {}
  /\ \A p \in Pids :
       IF procs[p].bg
       THEN /\ p \notin fgSet
            /\ Count(p, bgList) <= 1
            /\ InSeq(p, bgList) => procs[p].st = "reaped"
       ELSE /\ ~InSeq(p, bgList)
            /\ p \in fgSet <=> /\ procs[p].st # "reaped"
                               /\ ~(pc = "forked" /\ p = pid)

\* C5's case: a registered foreground child has been reaped and has left
\* the foreground set, while a reaped background child is on the list.
C5_Witness ==
  /\ bgList # <<>>
  /\ \E p \in Pids : ~procs[p].bg /\ procs[p].st = "reaped"
  /\ fgSet = {}

\* C6: runPipeline runs a pipeline in the shell, forking nothing, exactly
\* when it is a single command without redirections, in the foreground,
\* whose name is a builtin; any other pipeline forks one child per command.
C6_BuiltinFastPathIff ==
  \A j \in DOMAIN ran :
    LET pl == ran[j].pl
    IN /\ ran[j].path = "builtin"
            <=> /\ Len(pl.commands) = 1
                /\ pl.commands[1].name \in Builtins
                /\ pl.commands[1].redirs = <<>>
                /\ pl.flags # INBACKGROUND
       /\ ran[j].path = "builtin" => ran[j].forks = 0
       /\ (ran[j].path = "general" /\ j <= i) => ran[j].forks = Len(pl.commands)

\* C6's case: a builtin ran in the shell, and the same builtin with a
\* redirection was forked.
C6_Witness ==
  /\ \E j \in DOMAIN ran : ran[j].path = "builtin"
  /\ \E j \in DOMAIN ran :
       /\ ran[j].path = "general"
       /\ j <= i
       /\ Len(ran[j].pl.commands) = 1
       /\ ran[j].pl.commands[1].name \in Builtins
       /\ ran[j].pl.commands[1].redirs # <<>>

\* C7: in a pipeline of N commands, a child that reached its program and
\* whose command has no redirection reads the shell's standard input if it
\* is the first stage and the pipe after the previous stage otherwise,
\* writes the pipe after its own stage if it is not the last and the
\* shell's standard output if it is; N - 1 pipes are created in all.
C7_PipeWiring ==
  /\ \A p \in Pids :
       (procs[p].st = "running" /\ procs[p].com.redirs = <<>>)
         => /\ procs[p].fds[STDIN_FILENO]
                 = IF procs[p].stage = 0 THEN <<"stdin">>
                   ELSE <<"r", procs[p].run, procs[p].stage - 1>>
            /\ procs[p].fds[STDOUT_FILENO]
                 = IF procs[p].stage = procs[p].of - 1 THEN <<"stdout">>
                   ELSE <<"w", procs[p].run, procs[p].stage>>
  /\ pc \in {"wait", "unblock"} => npipes = num_commands - 1

\* C7's case: the middle stage of a three-stage pipeline runs its program
\* while the first and the last do too.
C7_Witness ==
  \E p \in Pids, q \in Pids, r \in Pids :
    /\ procs[p].st = "running" /\ procs[q].st = "running" /\ procs[r].st = "running"
    /\ procs[p].of = 3 /\ procs[p].run = procs[q].run /\ procs[q].run = procs[r].run
    /\ procs[p].stage = 0 /\ procs[q].stage = 1 /\ procs[r].stage = 2

\* C8: a child that fails before its program starts (a dup2, a close, an
\* open for a redirection, or the exec) prints one diagnostic and exits
\* with EXEC_FAILURE.
C8_LaunchFailureStatus ==
  (launch.st = "done" /\ launch.com # NullCommand /\ launch.c.fail # "none")
    => /\ launch.c.diag = 1
       /\ ~launch.c.exec
       /\ launch.c.status = EXEC_FAILURE

\* C9: the shell exits only at end of input or when dup, pipe, fork or
\* close fails in the shell itself; after a syntax error or a malformed
\* line it is back at the prompt with nothing run.
C9_OnlyResourceErrorsFatal ==
  /\ pc = "exited" <=> exitCause # "none"
  /\ exitCause \in {"none", "EOF", "dup", "pipe", "fork", "close"}
  /\ (InSeq("syntax", errs) \/ InSeq("EIO", errs)) => pc = "prompt" /\ ran = <<>>
  /\ InSeq("builtin", errs) => pc # "exited"

\* C9's case: a builtin failed, a child of a later pipeline failed before
\* its program started, and the shell is back at the prompt.
C9_Witness ==
  /\ pc = "prompt"
  /\ InSeq("builtin", errs)
  /\ \E p \in Pids : procs[p].st = "reaped" /\ ~procs[p].exec

\* What removeEmptyPipelines and handleLine do with a line they keep: the
\* non-empty pipelines, in their order, counted, and run in that order.
Kept ==
  /\ count = Len(NonEmptyOf(parsed))
  /\ pipelines = NonEmptyOf(parsed)
  /\ ~InSeq("syntax", errs)
  /\ \A j \in DOMAIN ran : j <= count /\ ran[j].pl = NonEmptyOf(parsed)[j]
  /\ pc = "prompt" => Len(ran) = count

\* C10, as written: a parsed line none of whose pipelines mixes an empty
\* slot with a real command keeps exactly its non-empty pipelines, in
\* order, and runs them.
C10_NoMixKept ==
  (parsed # <<>> /\ \A j \in DOMAIN parsed : ~MixesEmptyAndReal(parsed[j]))
    => Kept

\* C10, amended: a parsed line all of whose pipelines are empty (by
\* isEmptyPipeline) or made of real commands only keeps exactly its
\* non-empty pipelines, in order, and runs them; none left is not an error.
C10_EmptyOrRealKept ==
  (parsed # <<>> /\ \A j \in DOMAIN parsed : EmptyOrReal(parsed[j]))
    => Kept

\* C10's case: a line of three pipelines, the middle one empty, has run its
\* two others.
C10_Witness ==
  /\ pc = "prompt"
  /\ Len(parsed) = 3
  /\ isEmptyPipeline(parsed[2])
  /\ \A j \in DOMAIN parsed : EmptyOrReal(parsed[j])
  /\ Len(ran) = 2

\* C11: runPipeline never waits for a background pipeline: once its last
\* stage is launched it goes straight to the unblock and returns, whatever
\* its children are doing, and registered nothing to wait for.
C11_BackgroundNeverWaits ==
  /\ pc = "wait" => ~is_background
  /\ (pc \in RunPhases /\ is_background) => fgSet = {}

\* C11's case: the second pipeline of a line forks a child while a child of
\* the background pipeline before it is still running its program.
C11_Witness ==
  /\ pc = "forked"
  /\ Len(ran) = 2
  /\ ran[1].pl.flags = INBACKGROUND
  /\ \E p \in Pids : procs[p].bg /\ procs[p].run # nrun /\ procs[p].st = "running"

\* The last redirection of redirs whose direction is in dirs, as a
\* one-element sequence, or the empty sequence.
RECURSIVE LastOf(_, _)
LastOf(redirs, dirs) ==
  IF redirs = <<>> THEN <<>>
  ELSE LET r == redirs[Len(redirs)]
       IN IF r.dir \in dirs THEN <<r>>
          ELSE LastOf(SubSeq(redirs, 1, Len(redirs) - 1), dirs)

\* The open file a redirection binds its stream to.
TargetOf(r) ==
  <<"file", r.filename,
    IF r.dir = "RIN" THEN "O_RDONLY"
    ELSE IF r.dir = "ROUT" THEN "O_TRUNC" ELSE "O_APPEND">>

\* What the stage's pipe wiring alone binds its two streams to.
WiredInput(a) == IF a.stage = 0 THEN <<"stdin">> ELSE <<"r", 1, a.stage - 1>>
WiredOutput(a) == IF a.stage = a.of - 1 THEN <<"stdout">> ELSE <<"w", 1, a.stage>>

\* C12: a child that reached its program has its standard input on the
\* target of the last input redirection of its command, and its standard
\* output on the target of the last output (truncate or append)
\* redirection, whatever came before and whatever the pipe wiring was; a
\* stream without redirection keeps its pipe or inherited binding.
C12_LastRedirectionWins ==
  (launch.st = "done" /\ launch.com # NullCommand /\ launch.c.exec)
    => LET in == LastOf(launch.com.redirs, {"RIN"})
           out == LastOf(launch.com.redirs, {"ROUT", "RAPPEND"})
       IN /\ launch.c.fds[STDIN_FILENO]
               = IF in # <<>> THEN TargetOf(in[1]) ELSE WiredInput(launch.args)
          /\ launch.c.fds[STDOUT_FILENO]
               = IF out # <<>> THEN TargetOf(out[1]) ELSE WiredOutput(launch.args)
          /\ launch.c.fds[STDERR_FILENO] = <<"stderr">>

\* C12's case: a middle stage with two output redirections to different
\* files reached its program.
C12_Witness ==
  /\ launch.st = "done"
  /\ launch.com # NullCommand
  /\ launch.c.exec
  /\ launch.args.pp # NoPipe
  /\ launch.args.stage > 0
  /\ Len(launch.com.redirs) = 2
  /\ launch.com.redirs[1].dir = "ROUT"
  /\ launch.com.redirs[2].dir \in {"ROUT", "RAPPEND"}
  /\ launch.com.redirs[1].filename # launch.com.redirs[2].filename

\* The tracked children holding the open file obj, and whether the shell does.
Holders(obj) == {p \in Pids : \E fd \in DOMAIN procs[p].fds : procs[p].fds[fd] = obj}
ShellHolds(obj) == \E fd \in DOMAIN fds : fds[fd] = obj

\* The children of the r-th pipeline launched, and whether all its stages
\* are there, run their programs and have no redirection.
StagesOf(r) == {p \in Pids : procs[p].run = r}
AllRunning(r) ==
  /\ StagesOf(r) # {}
  /\ \A p \in StagesOf(r) :
       /\ Cardinality(StagesOf(r)) = procs[p].of
       /\ procs[p].st = "running"
       /\ procs[p].com.redirs = <<>>

\* C13: when a stage is about to be forked the shell holds, besides its
\* three standard descriptors, only that stage's input (what it handed to
\* the stages before is closed); outside the launch loop it holds no pipe
\* end; and once the launch loop of a pipeline without redirections is over
\* and all its stages run their programs, the write end of the pipe after
\* stage s is held by stage s alone and its read end by stage s + 1 alone.
C13_DescriptorDiscipline ==
  /\ pc = "launch"
       => /\ DOMAIN fds = DOMAIN InitFds \cup {read_fd}
          /\ fds[read_fd] = IF k = 0 THEN <<"stdin">> ELSE <<"r", nrun, k - 1>>
  /\ pc \in {"wait", "unblock", "loop", "prompt", "read"} => fds = InitFds
  /\ \A r \in 1..nrun :
       (AllRunning(r) /\ (r < nrun \/ pc \notin {"launch", "forked", "close"}))
         => \A p \in StagesOf(r) :
              procs[p].stage < procs[p].of - 1
                => /\ Holders(<<"w", r, procs[p].stage>>) = {p}
                   /\ ~ShellHolds(<<"w", r, procs[p].stage>>)
                   /\ ~ShellHolds(<<"r", r, procs[p].stage>>)
                   /\ \E q \in StagesOf(r) :
                        /\ procs[q].stage = procs[p].stage + 1
                        /\ Holders(<<"r", r, procs[p].stage>>) = {q}

\* C13's case: the shell waits for a pipeline of three stages, all of them
\* running their programs.
C13_Witness ==
  /\ pc = "wait"
  /\ num_commands = 3
  /\ AllRunning(nrun)

\* A child of a foreground pipeline has not terminated yet.
LiveForeground ==
  \E p \in Pids : ~procs[p].bg /\ procs[p].st \in {"forked", "running"}

\* C14: if every child of a foreground pipeline eventually terminates, a
\* shell that waits for a foreground pipeline eventually finds the
\* foreground set empty and leaves the wait, and runPipeline returns,
\* whatever the order of the terminations and whatever background children
\* terminate meanwhile.
C14_ForegroundWaitReturns ==
  []<>~LiveForeground
    => /\ (pc = "wait") ~> (pc = "unblock" /\ fgSet = {})
       /\ (pc = "wait") ~> (pc = "loop")

\* C14's case: the wait for a foreground pipeline is over, and a background
\* child was reaped on the way.
C14_Witness ==
  /\ pc = "unblock"
  /\ ~is_background
  /\ fgSet = {}
  /\ ran[Len(ran)].forks > 0
  /\ bgList # <<>>

\* C15: SIGCHLD is blocked in the shell exactly while a general-path call
\* of runPipeline is in progress: unblocked between pipelines (so before
\* and after a builtin), at the prompt and while reading; and a foreground
\* pipeline reaches the unblock only with its wait over.
C15_BlockUnblockBalanced ==
  /\ pc # "exited" => (blocked <=> pc \in RunPhases)
  /\ (pc = "unblock" /\ ~is_background) => fgSet = {}
  /\ \A j \in DOMAIN ran :
       (ran[j].path = "builtin" /\ j = Len(ran)) => ~blocked

\* C15's case: a background pipeline's call has returned with a child of it
\* still running, a builtin ran after it, and SIGCHLD is deliverable.
C15_Witness ==
  /\ pc = "loop"
  /\ ~blocked
  /\ Len(ran) = 2
  /\ ran[1].pl.flags = INBACKGROUND
  /\ ran[2].path = "builtin"
  /\ \E p \in Pids : procs[p].bg /\ procs[p].st = "running"

\* The names of the calls of a trace, in order.
CallNames(t) == [j \in DOMAIN t |-> t[j][1]]

\* C16: a child starts from the shell's signal state (SIGCHLD blocked,
\* SIGINT ignored, the shell's SIGCHLD handler) and, before any dup2, close,
\* open or exec, starts a new session exactly if its pipeline is in the
\* background, unblocks SIGCHLD and sets both dispositions to the saved
\* ones; nothing after that touches the session or the signals, so that is
\* the state its program starts in.
C16_ChildSignalsFirst ==
  /\ launch.st = "forked"
       => /\ launch.c.blocked
          /\ launch.c.sigint = "SIG_IGN"
          /\ launch.c.sigchld = "sigchldHandler"
          /\ launch.c.trace = <<>>
  /\ launch.st = "done"
       => LET t == launch.c.trace
              first == (IF launch.bg THEN <<"setsid">> ELSE <<>>)
                       \o <<"unblockChildSignal", "sigaction", "sigaction">>
              n == Len(first)
          IN /\ Len(t) >= n
             /\ SubSeq(CallNames(t), 1, n) = first
             /\ t[n - 1] = <<"sigaction", "SIGINT", "default">>
             /\ t[n] = <<"sigaction", "SIGCHLD", "default">>
             /\ \A j \in (n + 1)..Len(t) :
                  t[j][1] \in {"dup2", "close", "open", "execvp", "SIGSEGV"}
             /\ launch.c.session = IF launch.bg THEN "new" ELSE "shell"
             /\ ~launch.c.blocked
             /\ launch.c.sigint = "default"
             /\ launch.c.sigchld = "default"

\* C16's case: a stage of a background pipeline, with a redirection,
\* reached its program.
C16_Witness ==
  /\ launch.st = "done"
  /\ launch.bg
  /\ launch.c.exec
  /\ launch.args.pp # NoPipe
  /\ launch.com # NullCommand
  /\ launch.com.redirs # <<>>

\* C17: a child never leaves runCommand's child side alive: it ends in its
\* program or in an exit (or is killed), the call that ended it is the last
\* it made, and all it ever calls is setsid, the signal calls, dup2, close,
\* open and execvp.
C17_ChildNeverReturns ==
  launch.st = "done"
    => LET c == launch.c
           t == c.trace
       IN /\ ~c.alive
          /\ c.exec <=> c.fail = "none"
          /\ c.exec => c.status = -1 /\ t[Len(t)][1] = "execvp"
          /\ ~c.exec => /\ c.fds = NoFds
                        /\ \/ c.status \in {EXIT_FAILURE, EXEC_FAILURE}
                           \/ c.fail = "killed" /\ c.status = -1
          /\ c.fail \in {"dup2", "close", "open"} => t[Len(t)][1] = c.fail
          /\ c.fail = "exec" => t[Len(t)][1] = "execvp"
          /\ \A j \in DOMAIN t :
               /\ t[j][1] \in {"setsid", "unblockChildSignal", "sigaction", "dup2",
                               "close", "open", "execvp", "SIGSEGV"}
               /\ t[j][1] = "execvp" => j = Len(t)

\* C17's case: the second redirection of a child fails to open, after the
\* first was applied.
C17_Witness ==
  /\ launch.st = "done"
  /\ launch.com # NullCommand
  /\ Len(launch.com.redirs) = 2
  /\ launch.c.fail = "open"
  /\ \E j \in DOMAIN launch.c.trace :
       launch.c.trace[j][1] = "open" /\ j < Len(launch.c.trace)

\* The open calls of a trace, and its calls that can fail, in order.
Opens(t) == SelectSeq(t, LAMBDA e : e[1] = "open")
Counted(t) == SelectSeq(t, LAMBDA e : e[1] \in {"dup2", "close", "open", "execvp"})

\* The call made to fail is an open.
FailedOpen ==
  /\ launch.fault \in 1..Len(Counted(launch.c.trace))
  /\ Counted(launch.c.trace)[launch.fault][1] = "open"

\* C18: a child opens the targets of its redirections in listed order, each
\* with the flags of its direction; when an open fails it is the last call
\* the child makes: no later target is opened, the program is not exec'd,
\* one diagnostic is printed, and the opens made before it (which created
\* or truncated their targets) are all there is; without a failure every
\* target is opened.
C18_FirstFailingOpenEndsChild ==
  (launch.st = "done" /\ launch.com # NullCommand)
    => LET c == launch.c
           t == c.trace
           o == Opens(t)
           rs == launch.com.redirs
       IN /\ Len(o) <= Len(rs)
          /\ \A j \in DOMAIN o : o[j] = <<"open", rs[j].filename, TargetOf(rs[j])[3]>>
          /\ FailedOpen => /\ t[Len(t)] = o[Len(o)]
                           /\ ~c.exec
                           /\ c.diag = 1
                           /\ c.fail = "open"
          /\ c.fail \in {"none", "exec"} => Len(o) = Len(rs) /\ c.diag <= 1

\* C18's case: the first of two redirections fails to open, and the second
\* is an output redirection to another file.
C18_Witness ==
  /\ launch.st = "done"
  /\ launch.com # NullCommand
  /\ FailedOpen
  /\ Len(launch.com.redirs) = 2
  /\ Len(Opens(launch.c.trace)) = 1
  /\ launch.com.redirs[2].dir = "ROUT"
  /\ launch.com.redirs[2].filename # launch.com.redirs[1].filename

\* How many stages of the pipeline being run have been forked.
StagesForked == IF pc = "launch" THEN k
                ELSE IF pc \in {"forked", "close"} THEN k + 1 ELSE num_commands

\* C19: while runPipeline runs a pipeline on the general path, the children
\* forked for it are one per stage launched so far, in command order, each
\* for the command of its stage; when the next stage is about to be forked
\* (and until the wait starts reaping) every child of a foreground pipeline
\* is in the foreground set, and no child of a background pipeline ever is;
\* on return the forks made equal the number of commands.
C19_OneForkPerCommand ==
  /\ pc \in RunPhases
       => /\ ran[Len(ran)].forks = StagesForked
          /\ Cardinality(StagesOf(nrun)) = StagesForked
          /\ \A s \in 0..(StagesForked - 1) :
               \E p \in StagesOf(nrun) :
                 /\ procs[p].stage = s
                 /\ procs[p].com = CurPipeline.commands[s + 1]
                 /\ procs[p].of = num_commands
                 /\ procs[p].bg = is_background
                 /\ \A q \in StagesOf(nrun) : procs[q].stage < s <=> q < p
          /\ pc \in {"launch", "close"}
               => \A p \in StagesOf(nrun) : p \in fgSet <=> ~is_background
  /\ \A p \in Pids : procs[p].bg => p \notin fgSet
  /\ \A j \in DOMAIN ran :
       (ran[j].path = "general" /\ j <= i) => ran[j].forks = Len(ran[j].pl.commands)

\* C19's case: two stages of a foreground pipeline of three are forked and
\* registered, the second has already terminated, and the third is about
\* to be forked.
C19_Witness ==
  /\ pc = "launch"
  /\ k = 2
  /\ ~is_background
  /\ Cardinality(fgSet) = 2
  /\ \E p \in fgSet : procs[p].stage = 1 /\ procs[p].st = "zombie"

\* C20: the shell's three standard descriptors are never rebound or closed
\* while it runs, and whenever runPipeline has returned (between pipelines,
\* at the prompt, while reading) or is about to return, the shell's
\* descriptor table is what it was before the call: the duplicate of the
\* standard input and every pipe end are closed.
C20_ShellDescriptorsUnchanged ==
  /\ pc # "exited"
       => \A fd \in DOMAIN InitFds : IsOpen(fds, fd) /\ fds[fd] = InitFds[fd]
  /\ pc \in {"unblock", "loop", "prompt", "read"} => fds = InitFds
  /\ pc \in {"launch", "forked", "close"}
       => \A fd \in DOMAIN fds \ DOMAIN InitFds :
            fd = read_fd \/ (pc # "launch" /\ pipe_fds # NoPipe
                             /\ (fd = pipe_fds[1] \/ fd = pipe_fds[2]))

\* C20's case: a background pipeline and then a foreground one, both on the
\* general path, have returned in the same line.
C20_Witness ==
  /\ pc = "loop"
  /\ i = 2
  /\ ran[1].path = "general" /\ ran[1].pl.flags = INBACKGROUND
  /\ ran[2].path = "general" /\ ran[2].pl.flags # INBACKGROUND
  /\ fds = InitFds

====
